---- MODULE Spec2Model ----
(***************************************************************************)
(* A model of go.step.sm/qb: the statement templater (QueryBuilder and its *)
(* methods, src/query_builder.go:1-239) and the schema resolver (getTable, *)
(* fieldColumns and the table type, src/query_builder.go:506-663).        *)
(*                                                                         *)
(* Generated SQL is kept as a sequence of tokens, one per piece that       *)
(* fmt.Sprintf or strings.Join writes; Text renders a token sequence to    *)
(* the string the Go code returns.  Struct tags and type names, which the  *)
(* code splits, trims and scans rune by rune, are sequences of one-letter  *)
(* strings; Str turns such a sequence into a string.                       *)
(***************************************************************************)
EXTENDS Integers, Sequences, FiniteSets, TLC

VARIABLES q, desc, call, ret, err, panicked, stack, pc

vars == <<q, desc, call, ret, err, panicked, stack, pc>>

(***************************************************************************)
(* Bounds of the model.                                                    *)
(***************************************************************************)
MaxCols == 3
MaxArgs == 2
MaxFields == 2
MaxDepth == 6

(***************************************************************************)
(* Program constants (src/query_builder.go:9-13).                          *)
(***************************************************************************)
idColumn == "id"
createdAtColumn == "created_at"
deletedAtColumn == "deleted_at"

(***************************************************************************)
(* Tokens of generated text.                                               *)
(*   lit   : text of a format string, written verbatim                     *)
(*   tab   : the table name substituted for %s                             *)
(*   col   : a column name, or a SelectBy condition name, substituted      *)
(*   key   : the key column named by a format string                       *)
(*   bind  : a positional placeholder, "$" followed by the decimal n       *)
(*   named : a named placeholder, ":" followed by the column name          *)
(***************************************************************************)
Lit(s) == [k |-> "lit", s |-> s, n |-> 0]
Tab(s) == [k |-> "tab", s |-> s, n |-> 0]
Col(s) == [k |-> "col", s |-> s, n |-> 0]
Key(s) == [k |-> "key", s |-> s, n |-> 0]
Bind(i) == [k |-> "bind", s |-> "$", n |-> i]
Named(s) == [k |-> "named", s |-> s, n |-> 0]

\* strconv.Itoa
Itoa(i) == ToString(i)

TokText(t) ==
  CASE t.k = "bind" -> t.s \o Itoa(t.n)
    [] t.k = "named" -> ":" \o t.s
    [] OTHER -> t.s

RECURSIVE Text(_)
Text(toks) ==
  IF toks = <<>> THEN "" ELSE TokText(Head(toks)) \o Text(Tail(toks))

\* The bind style of the builder configuration.  This source tree has no bind
\* style (values writes "$" + Itoa(i)); the definitions below follow the
\* specification's "Bind-style substitution" rule.
POSITIONAL_DOLLAR == "POSITIONAL_DOLLAR"
POSITIONAL_QUESTION == "POSITIONAL_QUESTION"

\* a bind style that numbers the question marks
BindTextNumbered(style, i) ==
  IF style = POSITIONAL_QUESTION THEN "?" \o Itoa(i) ELSE "$" \o Itoa(i)

\* the bind style function: position i as "$i", or as a bare "?"
BindText(style, i) ==
  IF style = POSITIONAL_QUESTION THEN "?" ELSE "$" \o Itoa(i)

\* the text of a statement under a bind style
RECURSIVE TextIn(_, _)
TextIn(style, toks) ==
  IF toks = <<>> THEN ""
  ELSE (IF Head(toks).k = "bind" THEN BindText(style, Head(toks).n)
        ELSE TokText(Head(toks)))
       \o TextIn(style, Tail(toks))

\* strings.Join(s, ", ") over pieces that are token sequences
RECURSIVE join(_)
join(s) ==
  IF Len(s) = 0 THEN <<>>
  ELSE IF Len(s) = 1 THEN s[1]
  ELSE s[1] \o <<Lit(", ")>> \o join(Tail(s))

\* q.columns()
columns(b) == join([i \in 1..Len(b.Columns) |-> <<Col(b.Columns[i])>>])

\* values with the placeholders numbered from 0
valuesOffByOne(b) == join([i \in 1..Len(b.Columns) |-> <<Bind(i - 1)>>])
\* q.values(): c[i] = "$" + strconv.Itoa(i+1) for i in 0..n-1
values(b) == join([i \in 1..Len(b.Columns) |-> <<Bind((i - 1) + 1)>>])

\* q.namedValues()
namedValues(b) == join([i \in 1..Len(b.Columns) |-> <<Named(b.Columns[i])>>])

(***************************************************************************)
(* The statement templater.  b is the receiver, a QueryBuilder             *)
(* [Table, Columns, SelectDeleted].                                        *)
(***************************************************************************)

\* Select: "SELECT %s FROM %s WHERE id = $1" and the soft-delete filter
Select(b) ==
  LET s == <<Lit("SELECT ")>> \o columns(b) \o <<Lit(" FROM "), Tab(b.Table),
             Lit(" WHERE "), Key("id"), Lit(" = "), Bind(1)>>
  IN IF ~b.SelectDeleted THEN s \o <<Lit(" AND deleted_at IS NULL")>> ELSE s

\* the loop of SelectBy over extraNames: " AND %s = $%d" with n, i+2
RECURSIVE extraConds(_, _)
extraConds(extraNames, i) ==
  IF i >= Len(extraNames) THEN <<>>
  ELSE <<Lit(" AND "), Col(extraNames[i + 1]), Lit(" = "), Bind(i + 2)>>
         \o extraConds(extraNames, i + 1)

\* SelectBy with the extra names numbered from 1, as the first name is
SelectByRepeatBind(b, name, extraNames) ==
  LET s == <<Lit("SELECT ")>> \o columns(b) \o <<Lit(" FROM "), Tab(b.Table),
             Lit(" WHERE "), Col(name), Lit(" = "), Bind(1)>>
           \o extraConds(extraNames, 0)
      t == [i \in 1..Len(s) |->
              IF s[i].k = "bind" /\ s[i].n > 1 THEN Bind(s[i].n - 1) ELSE s[i]]
  IN IF ~b.SelectDeleted THEN t \o <<Lit(" AND deleted_at IS NULL")>> ELSE t
SelectBy(b, name, extraNames) ==
  LET s == <<Lit("SELECT ")>> \o columns(b) \o <<Lit(" FROM "), Tab(b.Table),
             Lit(" WHERE "), Col(name), Lit(" = "), Bind(1)>>
           \o extraConds(extraNames, 0)
  IN IF ~b.SelectDeleted THEN s \o <<Lit(" AND deleted_at IS NULL")>> ELSE s

\* SelectAll with the test of SelectDeleted inverted
SelectAllInverted(b) ==
  IF b.SelectDeleted
  THEN <<Lit("SELECT ")>> \o columns(b) \o <<Lit(" FROM "), Tab(b.Table),
         Lit(" WHERE deleted_at IS NULL")>>
  ELSE <<Lit("SELECT ")>> \o columns(b) \o <<Lit(" FROM "), Tab(b.Table)>>
SelectAll(b) ==
  IF ~b.SelectDeleted
  THEN <<Lit("SELECT ")>> \o columns(b) \o <<Lit(" FROM "), Tab(b.Table),
         Lit(" WHERE deleted_at IS NULL")>>
  ELSE <<Lit("SELECT ")>> \o columns(b) \o <<Lit(" FROM "), Tab(b.Table)>>

\* Insert: "INSERT INTO %s (%s) VALUES (%s)"
Insert(b) ==
  <<Lit("INSERT INTO "), Tab(b.Table), Lit(" (")>> \o columns(b)
    \o <<Lit(") VALUES (")>> \o values(b) \o <<Lit(")")>>

\* the loop of InsertWithReturning: st = [i, pos, columns, values]
RECURSIVE iwrLoop(_, _)
iwrLoop(b, st) ==
  IF st.i > Len(b.Columns) THEN st
  ELSE LET name == b.Columns[st.i]
       IN IF name # idColumn
          THEN iwrLoop(b, [i |-> st.i + 1, pos |-> st.pos + 1,
                           columns |-> Append(st.columns, <<Col(name)>>),
                           values |-> Append(st.values, <<Bind(st.pos)>>)])
          ELSE iwrLoop(b, [st EXCEPT !.i = st.i + 1])

\* InsertWithReturning with pos advanced on the id column too
RECURSIVE iwrLoopKeepIndex(_, _)
iwrLoopKeepIndex(b, st) ==
  IF st.i > Len(b.Columns) THEN st
  ELSE LET name == b.Columns[st.i]
       IN IF name # idColumn
          THEN iwrLoopKeepIndex(b, [i |-> st.i + 1, pos |-> st.pos + 1,
                           columns |-> Append(st.columns, <<Col(name)>>),
                           values |-> Append(st.values, <<Bind(st.pos)>>)])
          ELSE iwrLoopKeepIndex(b, [st EXCEPT !.i = st.i + 1, !.pos = st.pos + 1])

InsertWithReturningKeepIndex(b) ==
  LET st == iwrLoopKeepIndex(b, [i |-> 1, pos |-> 1, columns |-> <<>>, values |-> <<>>])
  IN <<Lit("INSERT INTO "), Tab(b.Table), Lit(" (")>> \o join(st.columns)
       \o <<Lit(") VALUES (")>> \o join(st.values)
       \o <<Lit(") RETURNING "), Key("id")>>
InsertWithReturning(b) ==
  LET st == iwrLoop(b, [i |-> 1, pos |-> 1, columns |-> <<>>, values |-> <<>>])
  IN <<Lit("INSERT INTO "), Tab(b.Table), Lit(" (")>> \o join(st.columns)
       \o <<Lit(") VALUES (")>> \o join(st.values)
       \o <<Lit(") RETURNING "), Key("id")>>

\* NamedInsert: "INSERT INTO %s (%s) VALUES (%s)" with q.namedValues()
NamedInsert(b) ==
  <<Lit("INSERT INTO "), Tab(b.Table), Lit(" (")>> \o columns(b)
    \o <<Lit(") VALUES (")>> \o namedValues(b) \o <<Lit(")")>>

\* the loop of NamedInsertWithReturning: st = [i, columns, values]
RECURSIVE niwrLoop(_, _)
niwrLoop(b, st) ==
  IF st.i > Len(b.Columns) THEN st
  ELSE LET name == b.Columns[st.i]
       IN IF name # idColumn
          THEN niwrLoop(b, [i |-> st.i + 1,
                            columns |-> Append(st.columns, <<Col(name)>>),
                            values |-> Append(st.values, <<Named(name)>>)])
          ELSE niwrLoop(b, [st EXCEPT !.i = st.i + 1])

NamedInsertWithReturning(b) ==
  LET st == niwrLoop(b, [i |-> 1, columns |-> <<>>, values |-> <<>>])
  IN <<Lit("INSERT INTO "), Tab(b.Table), Lit(" (")>> \o join(st.columns)
       \o <<Lit(") VALUES (")>> \o join(st.values)
       \o <<Lit(") RETURNING "), Key("id")>>

\* the loop of Update: st = [i, pos, v]
RECURSIVE updLoop(_, _)
updLoop(b, st) ==
  IF st.i > Len(b.Columns) THEN st
  ELSE LET name == b.Columns[st.i]
       IN IF name # idColumn /\ name # createdAtColumn
          THEN updLoop(b, [i |-> st.i + 1, pos |-> st.pos + 1,
                           v |-> Append(st.v, <<Col(name), Lit(" = "), Bind(st.pos)>>)])
          ELSE updLoop(b, [st EXCEPT !.i = st.i + 1])

\* Update that leaves out the id column only
RECURSIVE updLoopKeepCreatedAt(_, _)
updLoopKeepCreatedAt(b, st) ==
  IF st.i > Len(b.Columns) THEN st
  ELSE LET name == b.Columns[st.i]
       IN IF name # idColumn
          THEN updLoopKeepCreatedAt(b, [i |-> st.i + 1, pos |-> st.pos + 1,
                           v |-> Append(st.v, <<Col(name), Lit(" = "), Bind(st.pos)>>)])
          ELSE updLoopKeepCreatedAt(b, [st EXCEPT !.i = st.i + 1])

UpdateKeepCreatedAt(b) ==
  LET st == updLoopKeepCreatedAt(b, [i |-> 1, pos |-> 1, v |-> <<>>])
  IN <<Lit("UPDATE "), Tab(b.Table), Lit(" SET ")>> \o join(st.v)
       \o <<Lit(" WHERE "), Key("id"), Lit(" = "), Bind(st.pos)>>
Update(b) ==
  LET st == updLoop(b, [i |-> 1, pos |-> 1, v |-> <<>>])
  IN <<Lit("UPDATE "), Tab(b.Table), Lit(" SET ")>> \o join(st.v)
       \o <<Lit(" WHERE "), Key("id"), Lit(" = "), Bind(st.pos)>>

\* the loop of NamedUpdate: st = [i, values]
RECURSIVE nupdLoop(_, _)
nupdLoop(b, st) ==
  IF st.i > Len(b.Columns) THEN st
  ELSE LET name == b.Columns[st.i]
       IN IF name # idColumn /\ name # createdAtColumn
          THEN nupdLoop(b, [i |-> st.i + 1,
                            values |-> Append(st.values,
                                         <<Col(name), Lit(" = "), Named(name)>>)])
          ELSE nupdLoop(b, [st EXCEPT !.i = st.i + 1])

\* NamedUpdate that leaves out the id column only
RECURSIVE nupdLoopKeepCreatedAt(_, _)
nupdLoopKeepCreatedAt(b, st) ==
  IF st.i > Len(b.Columns) THEN st
  ELSE LET name == b.Columns[st.i]
       IN IF name # idColumn
          THEN nupdLoopKeepCreatedAt(b, [i |-> st.i + 1,
                            values |-> Append(st.values,
                                         <<Col(name), Lit(" = "), Named(name)>>)])
          ELSE nupdLoopKeepCreatedAt(b, [st EXCEPT !.i = st.i + 1])

NamedUpdateKeepCreatedAt(b) ==
  LET st == nupdLoopKeepCreatedAt(b, [i |-> 1, values |-> <<>>])
  IN <<Lit("UPDATE "), Tab(b.Table), Lit(" SET ")>> \o join(st.values)
       \o <<Lit(" WHERE "), Key("id"), Lit(" = "), Named("id")>>
NamedUpdate(b) ==
  LET st == nupdLoop(b, [i |-> 1, values |-> <<>>])
  IN <<Lit("UPDATE "), Tab(b.Table), Lit(" SET ")>> \o join(st.values)
       \o <<Lit(" WHERE "), Key("id"), Lit(" = "), Named("id")>>

\* Delete with the key bound to $1 as well
DeleteSameBind(b) ==
  <<Lit("UPDATE "), Tab(b.Table), Lit(" SET deleted_at = "), Bind(1),
    Lit(" WHERE "), Key("id"), Lit(" = "), Bind(1)>>
\* Delete: "UPDATE %s SET deleted_at = $1 WHERE id = $2"
Delete(b) ==
  <<Lit("UPDATE "), Tab(b.Table), Lit(" SET deleted_at = "), Bind(1),
    Lit(" WHERE "), Key("id"), Lit(" = "), Bind(2)>>

\* HardDelete: "DELETE FROM %s WHERE id = $1"
HardDelete(b) ==
  <<Lit("DELETE FROM "), Tab(b.Table), Lit(" WHERE "), Key("id"), Lit(" = "), Bind(1)>>

\* Queries
Queries(b) == <<Select(b), Insert(b), Update(b), Delete(b)>>

\* NewQueryBuilder
NewQueryBuilder(table, cols) ==
  [Table |-> table, Columns |-> cols, SelectDeleted |-> FALSE]

(***************************************************************************)
(* Text that the resolver scans rune by rune: a sequence of one-letter     *)
(* strings.                                                                *)
(***************************************************************************)
UpperChars == <<"A", "B", "C", "D", "E", "F", "G", "H", "I", "J", "K", "L", "M", "N", "O", "P", "Q", "R", "S", "T", "U", "V", "W", "X", "Y", "Z">>
LowerChars == <<"a", "b", "c", "d", "e", "f", "g", "h", "i", "j", "k", "l", "m", "n", "o", "p", "q", "r", "s", "t", "u", "v", "w", "x", "y", "z">>

\* unicode.IsUpper, unicode.ToLower (on the letters A-Z, a-z)
IsUpper(c) == \E i \in 1..Len(UpperChars) : UpperChars[i] = c
ToLower(c) ==
  IF IsUpper(c)
  THEN LowerChars[CHOOSE i \in 1..Len(UpperChars) : UpperChars[i] = c]
  ELSE c

\* the Go string made of the runes cs
RECURSIVE Str(_)
Str(cs) == IF cs = <<>> THEN "" ELSE Head(cs) \o Str(Tail(cs))

\* strings.TrimSpace (the white space of the model is the blank)
RECURSIVE TrimLeft(_)
TrimLeft(cs) ==
  IF cs # <<>> /\ Head(cs) = " " THEN TrimLeft(Tail(cs)) ELSE cs
RECURSIVE TrimRight(_)
TrimRight(cs) ==
  IF cs # <<>> /\ cs[Len(cs)] = " " THEN TrimRight(SubSeq(cs, 1, Len(cs) - 1)) ELSE cs
TrimSpace(cs) == TrimRight(TrimLeft(cs))

\* strings.SplitN(s, ",", 2)
SplitN2(cs) ==
  IF \E i \in 1..Len(cs) : cs[i] = ","
  THEN LET i == CHOOSE j \in 1..Len(cs) :
                  cs[j] = "," /\ \A h \in 1..(j - 1) : cs[h] # ","
       IN <<SubSeq(cs, 1, i - 1), SubSeq(cs, i + 1, Len(cs))>>
  ELSE <<cs>>

\* strings.EqualFold
EqualFold(a, b) ==
  /\ Len(a) = Len(b)
  /\ \A i \in 1..Len(a) : ToLower(a[i]) = ToLower(b[i])

\* isPrimaryKey
isPrimaryKey(cs) ==
  \/ EqualFold(cs, <<"p", "r", "i", "m", "a", "r", "y", "K", "e", "y">>)
  \/ EqualFold(cs, <<"p", "k", "e", "y">>)

(***************************************************************************)
(* The table type and its methods.  A call that can fail returns           *)
(* [t |-> the table, err |-> "" or the error].                             *)
(***************************************************************************)
NoErr == ""
ErrPrimaryKey == "table cannot have more than one primary key"
ErrNotStruct == "is neither struct nor does it point to one"

emptyTable == [Name |-> "", Columns |-> <<>>, PrimaryKey |-> ""]

\* (t *table) addColumn(name)
addColumn(t, name) ==
  LET parts == SplitN2(name)
  IN IF Len(parts) = 2 /\ isPrimaryKey(parts[2])
     THEN IF t.PrimaryKey # "" /\ t.PrimaryKey # Str(parts[1])
          THEN [t |-> t, err |-> ErrPrimaryKey]
          ELSE LET n == Str(TrimSpace(parts[1]))
               IN [t |-> [t EXCEPT !.Columns = Append(@, n), !.PrimaryKey = n],
                   err |-> NoErr]
     ELSE [t |-> [t EXCEPT !.Columns = Append(@, Str(TrimSpace(name)))],
           err |-> NoErr]

\* addColumnsFromTable with the nested columns put before the columns so far
addColumnsFromTableFirst(t, rt) ==
  IF rt.PrimaryKey # "" /\ t.PrimaryKey # "" /\ t.PrimaryKey # rt.PrimaryKey
  THEN [t |-> t, err |-> ErrPrimaryKey]
  ELSE [t |-> [t EXCEPT !.PrimaryKey = IF rt.PrimaryKey # "" THEN rt.PrimaryKey ELSE @,
                        !.Columns = rt.Columns \o @],
        err |-> NoErr]

\* (t *table) addColumnsFromTable(rt)
addColumnsFromTable(t, rt) ==
  IF rt.PrimaryKey # "" /\ t.PrimaryKey # "" /\ t.PrimaryKey # rt.PrimaryKey
  THEN [t |-> t, err |-> ErrPrimaryKey]
  ELSE [t |-> [t EXCEPT !.PrimaryKey = IF rt.PrimaryKey # "" THEN rt.PrimaryKey ELSE @,
                        !.Columns = @ \o rt.Columns],
        err |-> NoErr]

\* reflect.StructTag.Get: the value of the key, "" when the tag has no such key
TagGet(f, key) ==
  IF \E j \in 1..Len(f.tag) : f.tag[j].key = key
  THEN f.tag[CHOOSE j \in 1..Len(f.tag) :
               f.tag[j].key = key /\ \A h \in 1..(j - 1) : f.tag[h].key # key].val
  ELSE <<>>

\* getTagValue
getTagValue(key, f) ==
  LET s == TagGet(f, key)
  IN IF s = <<"-">> THEN <<>> ELSE s

\* getTableName without the test i != 0
RECURSIVE tableNameLoopAll(_, _)
tableNameLoopAll(name, i) ==
  IF i >= Len(name) THEN <<>>
  ELSE (IF IsUpper(name[i + 1]) THEN <<"_">> ELSE <<>>)
         \o <<ToLower(name[i + 1])>> \o tableNameLoopAll(name, i + 1)
getTableNameLeadingUnderscore(name) == Str(tableNameLoopAll(name, 0))

\* getTableName
RECURSIVE tableNameLoop(_, _)
tableNameLoop(name, i) ==
  IF i >= Len(name) THEN <<>>
  ELSE (IF IsUpper(name[i + 1]) /\ i # 0 THEN <<"_">> ELSE <<>>)
         \o <<ToLower(name[i + 1])>> \o tableNameLoop(name, i + 1)
getTableName(name) == Str(tableNameLoop(name, 0))

(***************************************************************************)
(* Structure definitions as reflect shows them.  A field is                *)
(* [kind, elem, tag]: kind is the reflect.Kind of the field's type         *)
(* ("struct", "ptr" or a kind that holds no fields), elem names the struct *)
(* type (of the field, or pointed to) in Types, or a type that is no       *)
(* struct; tag is the struct tag, a list of key:"value" pairs.             *)
(***************************************************************************)
Field(kind, elem, tag) == [kind |-> kind, elem |-> elem, tag |-> tag]

\* the struct types fields can have or point to, with their fields
Types ==
  [Location |-> <<[kind |-> "string", elem |-> "", tag |-> <<>>]>>,
   Time |-> <<[kind |-> "uint64", elem |-> "", tag |-> <<>>],
              [kind |-> "ptr", elem |-> "Location", tag |-> <<>>]>>,
   TestModelWithTime |-> <<[kind |-> "struct", elem |-> "Time", tag |-> <<[key |-> "db", val |-> <<"c", "r", "e", "a", "t", "e", "d", "_", "a", "t">>]>>],
                           [kind |-> "struct", elem |-> "Time", tag |-> <<[key |-> "db", val |-> <<"d", "e", "l", "e", "t", "e", "d", "_", "a", "t">>]>>]>>,
   testModel |-> <<[kind |-> "string", elem |-> "", tag |-> <<[key |-> "db", val |-> <<"i", "d">>]>>],
                   [kind |-> "struct", elem |-> "TestModelWithTime", tag |-> <<>>]>>,
   PkUid |-> <<[kind |-> "string", elem |-> "", tag |-> <<[key |-> "db", val |-> <<"u", "i", "d", ",", "p", "k", "e", "y">>]>>]>>,
   PkId |-> <<[kind |-> "string", elem |-> "", tag |-> <<[key |-> "db", val |-> <<"i", "d", ",", "p", "r", "i", "m", "a", "r", "y", "K", "e", "y">>]>>],
              [kind |-> "string", elem |-> "", tag |-> <<[key |-> "db", val |-> <<"n", "a", "m", "e">>]>>]>>]

IsStruct(id) == id \in DOMAIN Types

\* the fields a top-level structure is declared with
FieldPool ==
  {[kind |-> "string", elem |-> "", tag |-> <<[key |-> "dbtable", val |-> <<"u", "s", "e", "r", "s">>], [key |-> "db", val |-> <<"i", "d">>], [key |-> "table", val |-> <<"f", "o", "o">>], [key |-> "col", val |-> <<"f", "o", "o", "_", "i", "d">>]>>],
   [kind |-> "string", elem |-> "", tag |-> <<[key |-> "db", val |-> <<"n", "a", "m", "e">>], [key |-> "col", val |-> <<"f", "o", "o", "_", "n", "a", "m", "e">>]>>],
   [kind |-> "string", elem |-> "", tag |-> <<[key |-> "db", val |-> <<"i", "d", ",", "p", "k", "e", "y">>]>>],
   [kind |-> "string", elem |-> "", tag |-> <<[key |-> "db", val |-> <<"u", "i", "d", ",", "P", "K", "E", "Y">>]>>],
   [kind |-> "string", elem |-> "", tag |-> <<[key |-> "db", val |-> <<" ", "i", "d", ",", "p", "k", "e", "y">>]>>],
   [kind |-> "string", elem |-> "", tag |-> <<[key |-> "db", val |-> <<"-">>]>>],
   [kind |-> "string", elem |-> "", tag |-> <<[key |-> "dbtable", val |-> <<"-">>], [key |-> "db", val |-> <<"e", "m", "a", "i", "l", ",", "o", "m", "i", "t", "e", "m", "p", "t", "y">>]>>],
   [kind |-> "struct", elem |-> "testModel", tag |-> <<[key |-> "dbtable", val |-> <<"m", "o", "d", "e", "l">>]>>],
   [kind |-> "ptr", elem |-> "PkUid", tag |-> <<>>],
   [kind |-> "struct", elem |-> "PkId", tag |-> <<>>],
   [kind |-> "ptr", elem |-> "string", tag |-> <<>>]}

TypeNames == {<<"U", "s", "e", "r", "A", "c", "c", "o", "u", "n", "t">>, <<"I", "D">>}

\* reflect.Type of a structure: its name and its fields
StructTypes ==
  UNION {[name : {<<"I", "D">>}, fields : [1..n -> FieldPool]] : n \in 0..MaxFields}
    \cup UNION {[name : TypeNames, fields : [1..n -> FieldPool]] : n \in 0..1}

noType == [name |-> <<>>, fields |-> <<>>]

\* the values New is given: a structure, a pointer to one (nil or not), a string
PointedTypes == {t \in StructTypes : Len(t.fields) <= 1}
Inputs ==
  {[kind |-> "struct", isNil |-> FALSE, typ |-> t] : t \in StructTypes}
    \cup {[kind |-> "ptr", isNil |-> n, typ |-> t] : n \in BOOLEAN, t \in PointedTypes}
    \cup {[kind |-> "string", isNil |-> FALSE, typ |-> noType]}

\* structOf
structOf(i) ==
  CASE i.kind = "struct" -> [typ |-> i.typ, err |-> NoErr]
    [] i.kind = "ptr" /\ ~i.isNil -> [typ |-> i.typ, err |-> NoErr]
    [] OTHER -> [typ |-> noType, err |-> ErrNotStruct]

(***************************************************************************)
(* options and the Option functions                                        *)
(***************************************************************************)
defaultOptions == [tableName |-> "", tableTag |-> "dbtable", columnTag |-> "db"]

TableName(o, name) == IF name # "" THEN [o EXCEPT !.tableName = name] ELSE o
TableTag(o, key) == IF key # "" THEN [o EXCEPT !.tableTag = key] ELSE o
WithColumnTag(o, key) == IF key # "" THEN [o EXCEPT !.columnTag = key] ELSE o

ApplyOption(o, opt) ==
  CASE opt.fn = "TableName" -> TableName(o, opt.arg)
    [] opt.fn = "TableTag" -> TableTag(o, opt.arg)
    [] opt.fn = "WithColumnTag" -> WithColumnTag(o, opt.arg)

\* the loop of New over opts
RECURSIVE ApplyOptions(_, _)
ApplyOptions(o, opts) ==
  IF opts = <<>> THEN o ELSE ApplyOptions(ApplyOption(o, Head(opts)), Tail(opts))

\* the option lists New is called with
OptionLists ==
  {<<>>,
   <<[fn |-> "TableName", arg |-> "mytable"]>>,
   <<[fn |-> "TableName", arg |-> ""]>>,
   <<[fn |-> "TableTag", arg |-> "table"], [fn |-> "WithColumnTag", arg |-> "col"]>>}

(***************************************************************************)
(* fieldColumns and getTable                                               *)
(***************************************************************************)
\* return table{}, err
Fail(e) == [t |-> emptyTable, err |-> e]

\* rt, err := fieldColumns(field, o), then t.addColumnsFromTable(rt); r is the table
\* so far, rt what fieldColumns returned
addNested(r, rt) ==
  IF rt.err # NoErr THEN Fail(rt.err)
  ELSE LET r2 == addColumnsFromTable(r.t, rt.t)
       IN IF r2.err # NoErr THEN Fail(r2.err) ELSE r2

\* if name := getTagValue(o.columnTag, field); name != "" { t.addColumn(name) }
addOwn(r, name) ==
  IF r.err # NoErr \/ name = <<>> THEN r
  ELSE LET r3 == addColumn(r.t, name)
       IN IF r3.err # NoErr THEN Fail(r3.err) ELSE r3

\* adoptName without the test t.Name == ""
adoptNameLast(r, name) ==
  IF name # <<>> THEN [r EXCEPT !.t.Name = Str(name)] ELSE r

\* if t.Name == "" { if name := getTagValue(o.tableTag, field); name != "" {...} }
adoptName(r, name) ==
  IF r.t.Name = "" /\ name # <<>> THEN [r EXCEPT !.t.Name = Str(name)] ELSE r

RECURSIVE fieldColumns(_, _)
RECURSIVE fieldColumnsLoop(_, _, _, _)

\* the loop of fieldColumns over fields, from field i, with r.t the table so far;
\* an error ends it
fieldColumnsLoop(fields, i, r, o) ==
  IF i >= Len(fields) \/ r.err # NoErr THEN r
  ELSE fieldColumnsLoop(fields, i + 1,
         addOwn(addNested(r, fieldColumns(fields[i + 1], o)),
                getTagValue(o.columnTag, fields[i + 1])),
         o)

fieldColumns(f, o) ==
  IF f.kind \in {"struct", "ptr"} /\ IsStruct(f.elem)
  THEN fieldColumnsLoop(Types[f.elem], 0, [t |-> emptyTable, err |-> NoErr], o)
  ELSE [t |-> emptyTable, err |-> NoErr]

\* the loop of getTable over fields, from field i, with r.t the table so far
RECURSIVE getTableLoop(_, _, _, _)
getTableLoop(fields, i, r, o) ==
  IF i >= Len(fields) \/ r.err # NoErr THEN r
  ELSE getTableLoop(fields, i + 1,
         addOwn(addNested(adoptName(r, getTagValue(o.tableTag, fields[i + 1])),
                          fieldColumns(fields[i + 1], o)),
                getTagValue(o.columnTag, fields[i + 1])),
         o)

\* if t.Name == "" { t.Name = getTableName(typ.Name()) }
deriveName(r, typ) ==
  IF r.err = NoErr /\ r.t.Name = ""
  THEN [r EXCEPT !.t.Name = getTableName(typ.name)]
  ELSE r

getTableOf(v, o) ==
  IF v.err # NoErr THEN Fail(v.err)
  ELSE deriveName(getTableLoop(v.typ.fields, 0,
                               [t |-> [emptyTable EXCEPT !.Name = o.tableName],
                                err |-> NoErr], o),
                  v.typ)

getTable(i, o) == getTableOf(structOf(i), o)

\* a *QueryBuilder is <<>> when nil and <<b>> when it points to the builder b
Nil == <<>>

\* New returning a builder of the table so far together with the error
newOfPartial(r) ==
  [qb |-> <<NewQueryBuilder(r.t.Name, r.t.Columns)>>, t |-> r.t, err |-> r.err]

\* New: [qb |-> the builder or Nil, t |-> the table getTable returned, err]
newOf(r) ==
  IF r.err # NoErr
  THEN [qb |-> Nil, t |-> r.t, err |-> r.err]
  ELSE [qb |-> <<NewQueryBuilder(r.t.Name, r.t.Columns)>>, t |-> r.t, err |-> NoErr]
New(i, opts) == newOf(getTable(i, ApplyOptions(defaultOptions, opts)))

\* Must: [qb |-> the builder New returned, panic |-> "" or the error Must panics with]
Must(i, opts) ==
  LET r == New(i, opts)
  IN IF r.err # NoErr THEN [qb |-> Nil, panic |-> r.err] ELSE [qb |-> r.qb, panic |-> NoErr]

(***************************************************************************)
(* The state machine.                                                      *)
(*   q    : the caller's *QueryBuilder                                     *)
(*   desc : the table the last construction resolved (for NewQueryBuilder  *)
(*          the table and columns given, no primary key declared)          *)
(*   call : the last call, [op, args]                                      *)
(*   ret  : the strings the last call returned, as token sequences         *)
(*   err  : the error the last construction returned                       *)
(*   panicked : the value Must panicked with, "" when it did not            *)
(*   stack : the frames of getTable and fieldColumns when the resolution   *)
(*          is run call by call (SpecWalk)                                 *)
(*   pc   : where that resolution is: idle, walking, returned, overflow    *)
(***************************************************************************)
Tables == {"users"}
ColNames == {"id", "name", "created_at", "uid"}
ColumnLists == UNION {[1..n -> ColNames] : n \in 0..MaxCols}
ArgNames == {"id", "email"}
ArgLists == UNION {[1..n -> ArgNames] : n \in 0..(MaxArgs - 1)}

Init ==
  /\ q = Nil
  /\ desc = emptyTable
  /\ call = [op |-> "init", args |-> <<>>]
  /\ ret = <<>>
  /\ err = NoErr
  /\ panicked = NoErr
  /\ stack = <<>>
  /\ pc = "idle"

\* the builder is constructed once, by NewQueryBuilder, by New or by Must
CallNewQueryBuilder ==
  \E table \in Tables, cols \in ColumnLists :
    /\ call.op = "init"
    /\ q' = <<NewQueryBuilder(table, cols)>>
    /\ desc' = [Name |-> table, Columns |-> cols, PrimaryKey |-> ""]
    /\ call' = [op |-> "NewQueryBuilder", args |-> <<table, cols>>]
    /\ ret' = <<>>
    /\ err' = NoErr
    /\ UNCHANGED <<panicked, stack, pc>>

CallNew ==
  \E i \in Inputs, opts \in OptionLists :
    LET r == New(i, opts)
    IN /\ call.op = "init"
       /\ q' = r.qb
       /\ desc' = r.t
       /\ call' = [op |-> "New", args |-> <<i, opts>>]
       /\ ret' = <<>>
       /\ err' = r.err
       /\ UNCHANGED <<panicked, stack, pc>>

\* the values Must is called with
MustInputs == {i \in Inputs : Len(i.typ.fields) <= 1}

\* Must either returns the builder or panics, and then q is never assigned
CallMust ==
  \E i \in MustInputs, opts \in OptionLists :
    LET r == Must(i, opts)
    IN /\ call.op = "init"
       /\ q' = r.qb
       /\ desc' = New(i, opts).t
       /\ call' = [op |-> "Must", args |-> <<i, opts>>]
       /\ ret' = <<>>
       /\ err' = NoErr
       /\ panicked' = r.panic
       /\ UNCHANGED <<stack, pc>>

\* the caller assigns the exported field SelectDeleted
SetSelectDeleted ==
  \E v \in BOOLEAN :
    /\ q # Nil
    /\ q[1].SelectDeleted # v
    /\ q' = <<[q[1] EXCEPT !.SelectDeleted = v]>>
    /\ call' = [op |-> "SetSelectDeleted", args |-> <<v>>]
    /\ ret' = <<>>
    /\ UNCHANGED <<desc, err, panicked, stack, pc>>

\* a method call that leaves SelectDeleted set on the builder
ReturnsShowingDeleted(op, args, r) ==
  /\ q # Nil
  /\ call' = [op |-> op, args |-> args]
  /\ ret' = r
  /\ q' = <<[q[1] EXCEPT !.SelectDeleted = TRUE]>>
  /\ UNCHANGED <<desc, err, panicked, stack, pc>>

\* a method call on q that returns the strings r
Returns(op, args, r) ==
  /\ q # Nil
  /\ call' = [op |-> op, args |-> args]
  /\ ret' = r
  /\ UNCHANGED <<q, desc, err, panicked, stack, pc>>

CallSelect == Returns("Select", <<>>, <<Select(q[1])>>)
CallSelectBy ==
  \E name \in ArgNames, extraNames \in ArgLists :
    Returns("SelectBy", <<name, extraNames>>, <<SelectBy(q[1], name, extraNames)>>)
CallSelectAll == Returns("SelectAll", <<>>, <<SelectAll(q[1])>>)
CallInsert == Returns("Insert", <<>>, <<Insert(q[1])>>)
CallInsertWithReturning ==
  Returns("InsertWithReturning", <<>>, <<InsertWithReturning(q[1])>>)
CallNamedInsert == Returns("NamedInsert", <<>>, <<NamedInsert(q[1])>>)
CallNamedInsertWithReturning ==
  Returns("NamedInsertWithReturning", <<>>, <<NamedInsertWithReturning(q[1])>>)
CallUpdate == Returns("Update", <<>>, <<Update(q[1])>>)
CallNamedUpdate == Returns("NamedUpdate", <<>>, <<NamedUpdate(q[1])>>)
CallDelete == Returns("Delete", <<>>, <<Delete(q[1])>>)
CallHardDelete == Returns("HardDelete", <<>>, <<HardDelete(q[1])>>)
CallQueries == Returns("Queries", <<>>, Queries(q[1]))

Next ==
  \/ CallNewQueryBuilder
  \/ CallNew
  \/ CallMust
  \/ SetSelectDeleted
  \/ CallSelect
  \/ CallSelectBy
  \/ CallSelectAll
  \/ CallInsert
  \/ CallInsertWithReturning
  \/ CallNamedInsert
  \/ CallNamedInsertWithReturning
  \/ CallUpdate
  \/ CallNamedUpdate
  \/ CallDelete
  \/ CallHardDelete
  \/ CallQueries

Spec == Init /\ [][Next]_vars

(***************************************************************************)
(* What the claims speak of, read off a returned text or written out from  *)
(* the claim's words.                                                      *)
(***************************************************************************)
IsCol(t) == t.k = "col"
IsBind(t) == t.k = "bind"
IsKey(t) == t.k = "key"

\* the column names of a text, left to right
ColumnsOf(toks) ==
  LET c == SelectSeq(toks, IsCol) IN [i \in 1..Len(c) |-> c[i].s]
\* the bind numbers of a text, left to right
BindNumbers(toks) ==
  LET c == SelectSeq(toks, IsBind) IN [i \in 1..Len(c) |-> c[i].n]
\* the key columns a text names
KeysOf(toks) == {toks[i].s : i \in {j \in 1..Len(toks) : IsKey(toks[j])}}

\* c[1] + ", " + ... + ", " + c[n]
RECURSIVE CommaList(_, _)
CommaList(c, n) ==
  IF n = 0 THEN "" ELSE IF n = 1 THEN c[1] ELSE CommaList(c, n - 1) \o ", " \o c[n]

\* "$1, $2, ..., $n"
BindList(n) == CommaList([i \in 1..n |-> "$" \o ToString(i)], n)

\* "n1 = $1 AND n2 = $2 ... AND nk = $k"
RECURSIVE CondList(_, _)
CondList(names, k) ==
  IF k = 1 THEN names[1] \o " = $1"
  ELSE CondList(names, k - 1) \o " AND " \o names[k] \o " = $" \o ToString(k)

\* "c1 = $1, ..., ck = $k"
SetList(c) == CommaList([i \in 1..Len(c) |-> c[i] \o " = $" \o ToString(i)], Len(c))

NotId(c) == c # "id"
Updatable(c) == c # "id" /\ c # "created_at"

UpTo(m) == [i \in 1..m |-> i]

Called(op) == call.op = op /\ q # Nil /\ Len(ret) > 0

\* C1: SelectAll returns "SELECT " + join(C, ", ") + " FROM " + T followed by
\* " WHERE deleted_at IS NULL" exactly when SelectDeleted is false, and its columns
\* are those of C, in the order of C.
C1_SelectAllText ==
  (Called("SelectAll") /\ Len(q[1].Columns) > 0) =>
    /\ Text(ret[1]) =
         "SELECT " \o CommaList(q[1].Columns, Len(q[1].Columns)) \o " FROM " \o q[1].Table
           \o (IF q[1].SelectDeleted THEN "" ELSE " WHERE deleted_at IS NULL")
    /\ ColumnsOf(ret[1]) = q[1].Columns

C1_Witness ==
  /\ Called("SelectAll")
  /\ ~q[1].SelectDeleted
  /\ q[1].Columns = <<"id", "name", "created_at">>
  /\ Text(ret[1]) = "SELECT id, name, created_at FROM users WHERE deleted_at IS NULL"

\* C2: SelectBy(n1, ..., nk) returns "SELECT <cols> FROM <table> WHERE n1 = $1 AND
\* ... AND nk = $k", with " AND deleted_at IS NULL" appended exactly when
\* SelectDeleted is false, and Select() returns the text of SelectBy("id").
C2_SelectByText ==
  /\ Called("SelectBy") =>
       LET names == <<call.args[1]>> \o call.args[2]
       IN Text(ret[1]) =
            "SELECT " \o CommaList(q[1].Columns, Len(q[1].Columns))
              \o " FROM " \o q[1].Table \o " WHERE " \o CondList(names, Len(names))
              \o (IF q[1].SelectDeleted THEN "" ELSE " AND deleted_at IS NULL")
  /\ Called("Select") => Text(ret[1]) = Text(SelectBy(q[1], "id", <<>>))

C2_Witness ==
  /\ Called("SelectBy")
  /\ call.args = <<"email", <<"id">>>>
  /\ Text(ret[1]) =
       "SELECT id, name FROM users WHERE email = $1 AND id = $2 AND deleted_at IS NULL"

\* C3: Insert lists all n columns of C in order, the primary key included, and the
\* n placeholders $1..$n, the i-th placeholder standing at the i-th column's place.
C3_InsertAllColumns ==
  Called("Insert") =>
    LET n == Len(q[1].Columns)
    IN /\ ColumnsOf(ret[1]) = q[1].Columns
       /\ BindNumbers(ret[1]) = UpTo(n)
       /\ Text(ret[1]) =
            "INSERT INTO " \o q[1].Table \o " (" \o CommaList(q[1].Columns, n)
              \o ") VALUES (" \o BindList(n) \o ")"

C3_Witness ==
  /\ Called("Insert")
  /\ Text(ret[1]) = "INSERT INTO users (name, id, created_at) VALUES ($1, $2, $3)"

\* C4: the columns of InsertWithReturning are the columns of Insert without the
\* primary-key entry (the key column of the builder, id), in the same order; its
\* placeholders are $1..$k, one per remaining column; it ends with RETURNING id.
C4_ReturningDropsKey ==
  Called("InsertWithReturning") =>
    LET rest == SelectSeq(ColumnsOf(Insert(q[1])), NotId)
    IN /\ ColumnsOf(ret[1]) = rest
       /\ (\A i \in 1..Len(q[1].Columns) : q[1].Columns[i] # "id")
            => ColumnsOf(ret[1]) = q[1].Columns
       /\ BindNumbers(ret[1]) = UpTo(Len(rest))
       /\ Text(ret[1]) =
            "INSERT INTO " \o q[1].Table \o " (" \o CommaList(rest, Len(rest))
              \o ") VALUES (" \o BindList(Len(rest)) \o ") RETURNING id"

C4_Witness ==
  /\ Called("InsertWithReturning")
  /\ q[1].Columns = <<"name", "id", "uid">>
  /\ Text(ret[1]) = "INSERT INTO users (name, uid) VALUES ($1, $2) RETURNING id"

\* C5: the SET list of Update holds the columns of C other than id and created_at,
\* in the order of C, as "<col> = $i" with i = 1..k, and WHERE binds id to $(k+1),
\* also when k = 0.
C5_UpdateSetList ==
  Called("Update") =>
    LET set == SelectSeq(q[1].Columns, Updatable)
    IN /\ ColumnsOf(ret[1]) = set
       /\ BindNumbers(ret[1]) = UpTo(Len(set) + 1)
       /\ Text(ret[1]) =
            "UPDATE " \o q[1].Table \o " SET " \o SetList(set)
              \o " WHERE id = $" \o ToString(Len(set) + 1)

C5_Witness ==
  /\ Called("Update")
  /\ q[1].Columns = <<"name", "created_at", "uid">>
  /\ Text(ret[1]) = "UPDATE users SET name = $1, uid = $2 WHERE id = $3"

\* a positional text with its i-th placeholder replaced by ":" + the i-th of names
RECURSIVE ToNamed(_, _)
ToNamed(toks, names) ==
  IF toks = <<>> THEN <<>>
  ELSE IF IsBind(Head(toks))
       THEN <<Named(Head(names))>> \o ToNamed(Tail(toks), Tail(names))
       ELSE <<Head(toks)>> \o ToNamed(Tail(toks), names)

\* C6: NamedInsert, NamedInsertWithReturning and NamedUpdate have the columns of
\* Insert, InsertWithReturning and Update, and are those texts with the placeholder
\* of column c written ":" + c (and ":id" for the key in NamedUpdate's WHERE).
C6_NamedLikePositional ==
  /\ Called("NamedInsert") =>
       /\ ColumnsOf(ret[1]) = ColumnsOf(Insert(q[1]))
       /\ Text(ret[1]) = Text(ToNamed(Insert(q[1]), ColumnsOf(Insert(q[1]))))
  /\ Called("NamedInsertWithReturning") =>
       /\ ColumnsOf(ret[1]) = ColumnsOf(InsertWithReturning(q[1]))
       /\ Text(ret[1]) = Text(ToNamed(InsertWithReturning(q[1]),
                                      ColumnsOf(InsertWithReturning(q[1]))))
  /\ Called("NamedUpdate") =>
       /\ ColumnsOf(ret[1]) = ColumnsOf(Update(q[1]))
       /\ Text(ret[1]) = Text(ToNamed(Update(q[1]), ColumnsOf(Update(q[1])) \o <<"id">>))

C6_Witness ==
  /\ Called("NamedUpdate")
  /\ q[1].Columns = <<"id", "name", "created_at">>
  /\ Text(ret[1]) = "UPDATE users SET name = :name WHERE id = :id"

PositionalOps ==
  {"Select", "SelectBy", "Insert", "InsertWithReturning", "Update", "Delete",
   "HardDelete", "Queries"}

\* C7: in every positional statement the bind numbers, read left to right, are
\* 1, 2, ..., m; Delete binds deleted_at to $1 and the key to $2, HardDelete binds
\* the key to $1.
C7_BindsSequential ==
  /\ (q # Nil /\ call.op \in PositionalOps) =>
       \A j \in 1..Len(ret) :
         BindNumbers(ret[j]) = UpTo(Len(BindNumbers(ret[j])))
  /\ Called("Delete") =>
       Text(ret[1]) = "UPDATE " \o q[1].Table \o " SET deleted_at = $1 WHERE id = $2"
  /\ Called("HardDelete") =>
       Text(ret[1]) = "DELETE FROM " \o q[1].Table \o " WHERE id = $1"

C7_Witness ==
  /\ Called("Update")
  /\ BindNumbers(ret[1]) = <<1, 2, 3, 4>>

\* the primary key of the resolved table: the declared one, or "id" when none is
PrimaryKeyOf(t) == IF t.PrimaryKey # "" THEN t.PrimaryKey ELSE "id"

\* C8: every statement uses the primary key of the resolved table as its key
\* column: Select, Update, Delete and HardDelete filter on it, the returning inserts
\* return it, and it is the column left out of the returning-insert and update
\* column lists; it is "id" only when no primary key is declared.
C8_KeyIsPrimaryKey ==
  (q # Nil /\ Len(ret) > 0) =>
    LET K == PrimaryKeyOf(desc)
    IN /\ \A j \in 1..Len(ret) : KeysOf(ret[j]) \subseteq {K}
       /\ call.op \in {"InsertWithReturning", "NamedInsertWithReturning"} =>
            ColumnsOf(ret[1]) = SelectSeq(q[1].Columns, LAMBDA c : c # K)
       /\ call.op \in {"Update", "NamedUpdate"} =>
            ColumnsOf(ret[1]) =
              SelectSeq(q[1].Columns, LAMBDA c : c # K /\ c # "created_at")

\* the fields reachable from a list of fields through struct and pointer-to-struct
\* fields
RECURSIVE FieldsUnder(_)
FieldsUnder(fields) ==
  LET top == {fields[i] : i \in 1..Len(fields)}
  IN top \cup UNION {FieldsUnder(Types[f.elem]) :
                       f \in {g \in top : g.kind \in {"struct", "ptr"} /\ IsStruct(g.elem)}}

\* the columns that the column tags of the reachable fields declare as primary key
DeclaredKeys(fields, columnTag) ==
  LET tags == {getTagValue(columnTag, f) : f \in FieldsUnder(fields)}
      decl == {v \in tags : Len(SplitN2(v)) = 2 /\ isPrimaryKey(SplitN2(v)[2])}
  IN {Str(TrimSpace(SplitN2(v)[1])) : v \in decl} \ {""}

\* C9: resolution fails with the ambiguous-primary-key error if and only if two
\* reachable primary-key declarations name different non-empty columns; when the
\* declarations name one column, resolution succeeds with that primary key.
C9_AmbiguousIffDistinctKeys ==
  (call.op = "New" /\ structOf(call.args[1]).err = NoErr) =>
    LET o == ApplyOptions(defaultOptions, call.args[2])
        keys == DeclaredKeys(call.args[1].typ.fields, o.columnTag)
    IN /\ (err = ErrPrimaryKey) <=> (Cardinality(keys) >= 2)
       /\ Cardinality(keys) = 1 => (err = NoErr /\ desc.PrimaryKey \in keys)

\* the name with "_" before each upper-case letter but the first letter, lowered
RECURSIVE Flatten(_)
Flatten(ss) == IF ss = <<>> THEN <<>> ELSE Head(ss) \o Flatten(Tail(ss))
SnakeCase(name) ==
  Str(Flatten([i \in 1..Len(name) |->
                 IF i > 1 /\ IsUpper(name[i]) THEN <<"_", ToLower(name[i])>>
                 ELSE <<ToLower(name[i])>>]))

\* New succeeded on a structure named name, with no table name by option or tag
DerivedNameOf(name) ==
  /\ call.op = "New"
  /\ err = NoErr
  /\ q # Nil
  /\ call.args[1].typ.name = name
  /\ LET o == ApplyOptions(defaultOptions, call.args[2])
         fields == call.args[1].typ.fields
     IN /\ o.tableName = ""
        /\ \A j \in 1..Len(fields) : getTagValue(o.tableTag, fields[j]) = <<>>

\* C10 as claimed: the derived table name of UserAccount is user_account and that
\* of ID is id.
C10_AsClaimed ==
  /\ DerivedNameOf(<<"U", "s", "e", "r", "A", "c", "c", "o", "u", "n", "t">>) => q[1].Table = "user_account"
  /\ DerivedNameOf(<<"I", "D">>) => q[1].Table = "id"

\* C10 amended: the derived table name is the type name with an underscore before
\* each upper-case letter other than the first letter, lower-cased: UserAccount
\* gives user_account and ID gives i_d.
C10_DerivedTableName ==
  /\ \A name \in TypeNames : DerivedNameOf(name) => q[1].Table = SnakeCase(name)
  /\ DerivedNameOf(<<"U", "s", "e", "r", "A", "c", "c", "o", "u", "n", "t">>) => q[1].Table = "user_account"
  /\ DerivedNameOf(<<"I", "D">>) => q[1].Table = "i_d"

C10_Witness ==
  /\ DerivedNameOf(<<"I", "D">>)
  /\ q[1].Table = "i_d"
  /\ q[1].Columns = <<"name">>

\* New or Must returned a builder for the structure and options of the call
Built == call.op \in {"New", "Must"} /\ q # Nil

\* the options and fields of the construction call
OptsOf == ApplyOptions(defaultOptions, call.args[2])
FieldsOf == call.args[1].typ.fields

\* the table name by precedence: the option, else the table tag of the first field
\* whose table tag is not in skipped, else the name derived from the type name
NameByPrecedence(skipped) ==
  LET tagged == {j \in 1..Len(FieldsOf) : TagGet(FieldsOf[j], OptsOf.tableTag) \notin skipped}
      first == CHOOSE j \in tagged : \A h \in tagged : j <= h
  IN IF OptsOf.tableName # "" THEN OptsOf.tableName
     ELSE IF tagged # {} THEN Str(TagGet(FieldsOf[first], OptsOf.tableTag))
     ELSE SnakeCase(call.args[1].typ.name)

\* C11 as claimed: the table name is the non-empty table-name option, else the
\* table tag of the first field with a non-empty table tag, else the name derived
\* from the type name; it is never empty.
C11_AsClaimed ==
  Built => (q[1].Table = NameByPrecedence({<<>>}) /\ q[1].Table # "")

\* C11 amended: the table name is the non-empty table-name option, else the table
\* tag of the first field whose table tag is neither empty nor "-", else the name
\* derived from the type name; later tagged fields never replace it and it is
\* never empty.
C11_TableNamePrecedence ==
  Built => (q[1].Table = NameByPrecedence({<<>>, <<"-">>}) /\ q[1].Table # "")

\* two fields with different table tags: the first one names the table
C11_Witness ==
  /\ Built
  /\ Len(FieldsOf) = 2
  /\ OptsOf.tableName = ""
  /\ Str(TagGet(FieldsOf[1], OptsOf.tableTag)) = "users"
  /\ Str(TagGet(FieldsOf[2], OptsOf.tableTag)) = "model"
  /\ q[1].Table = "users"

\* the column a column tag value adds to an empty table
ColumnOf(v) == addColumn(emptyTable, v).t.Columns[1]

\* the columns of the column-tagged fields reachable from fields, depth first in
\* declaration order: for each field the columns under it, then its own column
RECURSIVE DepthFirst(_, _)
DepthFirst(fields, columnTag) ==
  Flatten([i \in 1..Len(fields) |->
    (IF fields[i].kind \in {"struct", "ptr"} /\ IsStruct(fields[i].elem)
     THEN DepthFirst(Types[fields[i].elem], columnTag) ELSE <<>>)
    \o (IF TagGet(fields[i], columnTag) \in {<<>>, <<"-">>}
        THEN <<>> ELSE <<ColumnOf(TagGet(fields[i], columnTag))>>)])

\* C12: the column list of a builder New or Must returns is the depth-first,
\* declaration-order sequence of the column-tagged fields reachable through struct
\* and pointer-to-struct fields, the nested columns of a field before its own
\* column and before later fields; untagged fields, fields tagged "-" and fields
\* of other types add nothing.
C12_ColumnsDepthFirst ==
  Built => q[1].Columns = DepthFirst(FieldsOf, OptsOf.columnTag)

\* a column-tagged field before an embedded structure that nests another one
C12_Witness ==
  /\ Built
  /\ Len(FieldsOf) = 2
  /\ FieldsOf[2].kind = "struct"
  /\ q[1].Columns = <<"name", "id", "created_at", "deleted_at">>

\* the input is a structure or points to one
PointsToStruct(i) == i.kind = "struct" \/ (i.kind = "ptr" /\ ~i.isNil)

\* C13: New returns either a builder and no error or no builder and an error; the
\* error is returned exactly when the input is neither a structure nor points to
\* one or the resolution ends in the primary-key conflict, and the builder is the
\* one made of the resolved table and columns.  Must panics exactly when New
\* returns an error, with that error, and otherwise returns New's builder.
C13_AllOrNothing ==
  /\ call.op = "New" =>
       /\ (q = Nil) <=> (err # NoErr)
       /\ err \in {NoErr, ErrNotStruct, ErrPrimaryKey}
       /\ (err = ErrNotStruct) <=> ~PointsToStruct(call.args[1])
       /\ (err = ErrPrimaryKey) <=>
            (PointsToStruct(call.args[1])
               /\ getTableLoop(FieldsOf, 0, [t |-> emptyTable, err |-> NoErr], OptsOf).err
                    = ErrPrimaryKey)
       /\ err = NoErr =>
            q = <<[Table |-> desc.Name, Columns |-> desc.Columns, SelectDeleted |-> FALSE]>>
  /\ call.op = "Must" =>
       /\ (panicked # NoErr) <=> (New(call.args[1], call.args[2]).err # NoErr)
       /\ panicked = New(call.args[1], call.args[2]).err
       /\ q = New(call.args[1], call.args[2]).qb
       /\ (q = Nil) <=> (panicked # NoErr)

\* New fails on a primary-key conflict with no builder
C13_Witness ==
  /\ call.op = "New"
  /\ PointsToStruct(call.args[1])
  /\ err = ErrPrimaryKey
  /\ q = Nil

\* a statement with each positional placeholder replaced by the text "?"
QuestionMarks(toks) ==
  [i \in 1..Len(toks) |-> IF IsBind(toks[i]) THEN Lit("?") ELSE toks[i]]

MethodOps ==
  {"Select", "SelectBy", "SelectAll", "Insert", "InsertWithReturning", "NamedInsert",
   "NamedInsertWithReturning", "Update", "NamedUpdate", "Delete", "HardDelete", "Queries"}

CyclicTypes ==
  [Node |-> <<Field("string", "", <<[key |-> "db", val |-> <<"i", "d">>]>>),
              Field("ptr", "Node", <<>>)>>,
   Parent |-> <<Field("ptr", "Child", <<>>)>>,
   Child |-> <<Field("string", "", <<[key |-> "db", val |-> <<"n", "a", "m", "e">>]>>),
               Field("ptr", "Parent", <<>>)>>]

WalkTypes == Types @@ CyclicTypes

\* the fields of the structures resolved call by call
WalkPool ==
  {Field("string", "", <<[key |-> "dbtable", val |-> <<"u", "s", "e", "r", "s">>], [key |-> "db", val |-> <<"i", "d">>]>>),
   Field("string", "", <<[key |-> "db", val |-> <<"u", "i", "d", ",", "p", "k", "e", "y">>]>>),
   Field("struct", "testModel", <<[key |-> "dbtable", val |-> <<"m", "o", "d", "e", "l">>]>>),
   Field("struct", "PkId", <<>>),
   Field("ptr", "Node", <<>>),
   Field("struct", "Parent", <<[key |-> "db", val |-> <<"p", "a", "r", "e", "n", "t">>]>>)}

WalkInputs ==
  {[kind |-> "struct", isNil |-> FALSE, typ |-> [name |-> <<"I", "D">>, fields |-> fs]] :
     fs \in UNION {[1..n -> WalkPool] : n \in 0..MaxFields}}
    \cup {[kind |-> "string", isNil |-> FALSE, typ |-> noType]}

\* the field is a struct or a pointer to a struct: fieldColumns loops over its fields
Recurses(f) == f.kind \in {"struct", "ptr"} /\ f.elem \in DOMAIN WalkTypes

okTable == [t |-> emptyTable, err |-> NoErr]

\* the frame of the running call, the field it is at, and whether its loop is over
Top == stack[Len(stack)]
TopField == Top.fields[Top.i + 1]
TopDone == Top.i >= Len(Top.fields) \/ Top.r.err # NoErr
WalkOpts == ApplyOptions(defaultOptions, call.args[2])

\* the table of a frame before fieldColumns is called on its field: getTable looks
\* for the table name first, fieldColumns does not
beforeCall(fr, top) ==
  IF top THEN adoptName(fr.r, getTagValue(WalkOpts.tableTag, fr.fields[fr.i + 1])) ELSE fr.r

\* the frame after fieldColumns returned rt for its field: the nested columns, then
\* the field's own column, then the next field
afterCall(fr, r, rt) ==
  [fr EXCEPT !.r = addOwn(addNested(r, rt), getTagValue(WalkOpts.columnTag, fr.fields[fr.i + 1])),
             !.i = @ + 1]

\* New calls getTable: structOf, then the loop over the fields of the structure
WalkStart ==
  \E i \in WalkInputs, opts \in OptionLists :
    /\ call.op = "init"
    /\ call' = [op |-> "New", args |-> <<i, opts>>]
    /\ IF structOf(i).err # NoErr
       THEN /\ pc' = "returned"
            /\ err' = structOf(i).err
            /\ stack' = <<>>
       ELSE /\ pc' = "walking"
            /\ err' = NoErr
            /\ stack' = <<[fields |-> i.typ.fields, i |-> 0,
                           r |-> [t |-> [emptyTable EXCEPT
                                           !.Name = ApplyOptions(defaultOptions, opts).tableName],
                                  err |-> NoErr]]>>
    /\ UNCHANGED <<q, desc, ret, panicked>>

\* fieldColumns on a field of another type returns an empty table at once
WalkLeaf ==
  /\ pc = "walking" /\ ~TopDone /\ ~Recurses(TopField)
  /\ stack' = [stack EXCEPT ![Len(stack)] =
                 afterCall(Top, beforeCall(Top, Len(stack) = 1), okTable)]
  /\ UNCHANGED <<q, desc, call, ret, err, panicked, pc>>

\* fieldColumns on a struct or pointer-to-struct field: a new frame over its fields
WalkEnter ==
  /\ pc = "walking" /\ ~TopDone /\ Recurses(TopField)
  /\ Len(stack) < MaxDepth
  /\ stack' = [stack EXCEPT ![Len(stack)].r = beforeCall(Top, Len(stack) = 1)]
                \o <<[fields |-> WalkTypes[TopField.elem], i |-> 0, r |-> okTable]>>
  /\ UNCHANGED <<q, desc, call, ret, err, panicked, pc>>

\* the same call with the stack used up: the runtime ends the program
WalkOverflow ==
  /\ pc = "walking" /\ ~TopDone /\ Recurses(TopField)
  /\ Len(stack) >= MaxDepth
  /\ pc' = "overflow"
  /\ UNCHANGED <<q, desc, call, ret, err, panicked, stack>>

\* fieldColumns returns its table or its error to the frame that called it
WalkReturn ==
  /\ pc = "walking" /\ TopDone /\ Len(stack) > 1
  /\ stack' = [SubSeq(stack, 1, Len(stack) - 1) EXCEPT ![Len(stack) - 1] =
                 afterCall(@, @.r, IF Top.r.err # NoErr THEN Fail(Top.r.err) ELSE Top.r)]
  /\ UNCHANGED <<q, desc, call, ret, err, panicked, pc>>

\* getTable returns, and New returns the builder or the error
WalkDone ==
  /\ pc = "walking" /\ TopDone /\ Len(stack) = 1
  /\ LET r == newOf(deriveName(IF Top.r.err # NoErr THEN Fail(Top.r.err) ELSE Top.r,
                               call.args[1].typ))
     IN /\ q' = r.qb
        /\ desc' = r.t
        /\ err' = r.err
  /\ pc' = "returned"
  /\ stack' = <<>>
  /\ UNCHANGED <<call, ret, panicked>>

WalkNext ==
  \/ WalkStart
  \/ WalkLeaf
  \/ WalkEnter
  \/ WalkOverflow
  \/ WalkReturn
  \/ WalkDone

SpecWalk == Init /\ [][WalkNext]_vars

\* the structure types a list of fields leads to, in up to n steps
RECURSIVE TypesUnder(_, _)
TypesUnder(fields, n) ==
  LET direct == {fields[i].elem : i \in {j \in 1..Len(fields) : Recurses(fields[j])}}
  IN IF n = 0 THEN direct
     ELSE direct \cup UNION {TypesUnder(WalkTypes[t], n - 1) : t \in direct}

\* the structure of the call leads to a type that leads back to itself
Cyclic ==
  \E t \in TypesUnder(call.args[1].typ.fields, MaxDepth) :
    t \in TypesUnder(WalkTypes[t], MaxDepth)

\* C16: the resolution of every structure, self-referential ones included, returns
\* a descriptor or an error: it never runs out of stack.
C16_ResolutionReturns == pc # "overflow"

\* the resolution run call by call returns what New returns, and exhausts the
\* stack only on a structure that leads back to itself
WalkAgrees ==
  /\ pc = "overflow" => Cyclic
  /\ (pc = "returned" /\ ~Cyclic) =>
       LET r == New(call.args[1], call.args[2])
       IN q = r.qb /\ err = r.err /\ (err = NoErr => desc = r.t)

\* the part of a column tag value before its first comma, trimmed
BeforeComma(v) == Str(TrimSpace(SplitN2(v)[1]))

\* DepthFirst with every column named by the part of its tag before the comma
RECURSIVE NamesDepthFirst(_, _)
NamesDepthFirst(fields, columnTag) ==
  Flatten([i \in 1..Len(fields) |->
    (IF fields[i].kind \in {"struct", "ptr"} /\ IsStruct(fields[i].elem)
     THEN NamesDepthFirst(Types[fields[i].elem], columnTag) ELSE <<>>)
    \o (IF TagGet(fields[i], columnTag) \in {<<>>, <<"-">>}
        THEN <<>> ELSE <<BeforeComma(TagGet(fields[i], columnTag))>>)])

\* C17: every column of the builder is the part of its field's column tag before
\* the first comma, trimmed, whatever follows the comma; so no qualifier is in the
\* column list or in the statements, and a primary-key column is in the list.
C17_NameBeforeComma ==
  Built => q[1].Columns = NamesDepthFirst(FieldsOf, OptsOf.columnTag)

\* the structure value of the type the input is or points to
AsStruct(i) == [kind |-> "struct", isNil |-> FALSE, typ |-> i.typ]

\* C18: what New returns for a structure or for a pointer to a structure type, nil
\* or not, is what it returns for a structure value of that type with the same
\* options.
C18_OutcomeByTypeOnly ==
  (call.op = "New" /\ call.args[1].kind \in {"struct", "ptr"}) =>
    LET r == New(AsStruct(call.args[1]), call.args[2])
    IN err = r.err /\ q = r.qb

====
